---- MODULE Spec2Model ----
(***************************************************************************)
(* The client-side state machine of the trolley tracker front end:         *)
(* App.jsx (route / stop / car selection, ETA fetch, location polling)     *)
(* and the StopSelector component that renders the active stop list.       *)
(***************************************************************************)
EXTENDS Integers, Sequences, FiniteSets, TLC

(***************************************************************************)
(* Bounds of the model.                                                    *)
(***************************************************************************)
\* Largest number of ETA requests in flight at once.
MaxEtaInFlight == 2
\* Largest number of location requests in flight at once.
MaxPollInFlight == 2

(***************************************************************************)
(* JSON values as the handlers see them.  A value is a record             *)
(* [t, n, s]: t is the JavaScript type, n the number, s the string.       *)
(* "undefined" is the value of a field the object does not carry.         *)
(***************************************************************************)
JUndefined == [t |-> "undefined", n |-> 0, s |-> ""]
JNull == [t |-> "null", n |-> 0, s |-> ""]
JNumber(k) == [t |-> "number", n |-> k, s |-> ""]
JString(str) == [t |-> "string", n |-> 0, s |-> str]

\* if (v): JavaScript truthiness of a JSON value.
Truthy(v) ==
    CASE v.t = "string" -> v.s # ""
      [] v.t = "number" -> v.n # 0
      [] OTHER -> FALSE

\* v != null: false for null and for undefined.
NotNullish(v) == v.t \notin {"null", "undefined"}

\* `${v}`: the string a template literal makes of a value.
TemplateString(v) ==
    CASE v.t = "number" -> ToString(v.n)
      [] v.t = "string" -> v.s
      [] OTHER -> v.t

(***************************************************************************)
(* Stop catalog.                                                           *)
(***************************************************************************)
northboundStops ==
    << "Dorsey Ln/Apache Blvd", "Rural Rd/Apache Blvd", "Paseo Del Saber/Apache Blvd",
       "College Ave/Apache Blvd", "Eleventh St/Mill", "Ninth St/Mill",
       "Sixth St/Mill", "Third St/Mill", "Hayden Ferry", "Marina Heights" >>

southboundStops ==
    << "Marina Heights", "Hayden Ferry", "Tempe Beach Park", "3rd St/Ash Ave",
       "5th St/Ash Ave", "University Dr/Ash Ave", "Ninth St/Mill",
       "Eleventh St/Mill", "College Ave/Apache Blvd", "Paseo Del Saber/Apache Blvd",
       "Rural Rd/Apache Blvd", "Dorsey Ln/Apache Blvd" >>

Routes == {"northbound", "southbound"}

(***************************************************************************)
(* Inputs: the bodies the two endpoints may answer with, and the ids the   *)
(* car selector may be called with.                                        *)
(***************************************************************************)
\* A parsed ETA body: a JSON object, of which the handler reads three fields
\* (a field the object lacks reads as undefined), or the JSON literal null.
EtaObject(error, eta_min, eta_sec) ==
    [t |-> "object", error |-> error, eta_min |-> eta_min, eta_sec |-> eta_sec]
EtaNullBody ==
    [t |-> "null", error |-> JUndefined, eta_min |-> JUndefined, eta_sec |-> JUndefined]
EtaObjects ==
    { EtaObject(JString("Trolley not in service"), JUndefined, JUndefined),
      EtaObject(JString("Trolley not in service"), JNumber(3), JNumber(7)),
      EtaObject(JString(""), JNumber(3), JNumber(7)),
      EtaObject(JString(""), JUndefined, JUndefined),
      EtaObject(JNull, JNumber(0), JNumber(0)),
      EtaObject(JUndefined, JNumber(3), JNumber(7)),
      EtaObject(JUndefined, JNumber(0), JNumber(0)),
      EtaObject(JUndefined, JNumber(3), JUndefined),
      EtaObject(JUndefined, JNull, JNumber(7)),
      EtaObject(JUndefined, JNumber(0), JNull),
      EtaObject(JUndefined, JUndefined, JUndefined) }
EtaBodies == EtaObjects \cup {EtaNullBody}

Car(id, lat, lng) == [id |-> id, lat |-> lat, lng |-> lng]
\* Parsed location bodies: arrays of {id, lat, lng}.
PollBodies ==
    { << >>,
      << Car("1", 0, 0) >>,
      << Car("1", 1, 1), Car("2", 0, 0) >> }
CarIds == {"1", "2", "3"}

\* selectedCar = null.
NoCar == Car("", 0, 0)

(***************************************************************************)
(* State.                                                                  *)
(***************************************************************************)
VARIABLES
    isDrawerOpen,      \* useState(false): car sidebar open
    route,             \* useState("northbound")
    selectedStop,      \* useState("default")
    finalETA,          \* useState("ETA_PLACEHOLDER"): the displayed ETA
    trolleyLocations,  \* useState([]): the vehicle list
    selectedCar,       \* useState(null)
    etaInFlight,       \* ETA requests sent and not yet settled, in issue order
    pollInFlight,      \* number of location requests sent and not yet settled
    lifecycle,         \* of App: "rendered" (effects not yet run), "mounted", "unmounted"
    interval           \* the timer of setInterval: "unset", "set", "cleared"

vars == << isDrawerOpen, route, selectedStop, finalETA, trolleyLocations,
           selectedCar, etaInFlight, pollInFlight, lifecycle, interval >>

\* const stops = route === "northbound" ? northboundStops : southboundStops
stopsOf(r) == IF r = "northbound" THEN northboundStops ELSE southboundStops
\* Variant: the ternary of the stop list inverted.
stopsInverted == IF route = "northbound" THEN southboundStops ELSE northboundStops
stops == stopsOf(route)

\* StopSelector: one button per element of stops, in order, each calling
\* onSelect with its own stop.
StopSelector(list) == [i \in 1..Len(list) |-> list[i]]

Init ==
    /\ isDrawerOpen = FALSE
    /\ route = "northbound"
    /\ selectedStop = "default"
    /\ finalETA = "ETA_PLACEHOLDER"
    /\ trolleyLocations = << >>
    /\ selectedCar = NoCar
    /\ etaInFlight = << >>
    /\ pollInFlight = 0
    /\ lifecycle = "rendered"
    /\ interval = "unset"

\* The component is mounted: its handlers can run and its setters take effect.
mounted == lifecycle = "mounted"

(***************************************************************************)
(* Effects: mount, interval tick, teardown.                                *)
(***************************************************************************)
\* The two mount effects: fetchTrolleyLocations() once, and setInterval.
Mount ==
    /\ lifecycle = "rendered"
    /\ lifecycle' = "mounted"
    /\ pollInFlight' = pollInFlight + 1
    /\ interval' = "set"
    /\ UNCHANGED << isDrawerOpen, route, selectedStop, finalETA, trolleyLocations,
                    selectedCar, etaInFlight >>

\* The interval callback, every 5000 ms while the interval is set.
Tick ==
    /\ interval = "set"
    /\ pollInFlight < MaxPollInFlight
    /\ pollInFlight' = pollInFlight + 1
    /\ UNCHANGED << isDrawerOpen, route, selectedStop, finalETA, trolleyLocations,
                    selectedCar, etaInFlight, lifecycle, interval >>

\* Variant: teardown with no cleanup returned by the interval effect.
UnmountLeak ==
    /\ mounted
    /\ lifecycle' = "unmounted"
    /\ UNCHANGED << isDrawerOpen, route, selectedStop, finalETA, trolleyLocations,
                    selectedCar, etaInFlight, pollInFlight, interval >>

\* Teardown of the view; the interval effect's cleanup runs:
\* clearInterval(interval).
Unmount ==
    /\ mounted
    /\ lifecycle' = "unmounted"
    /\ interval' = "cleared"
    /\ UNCHANGED << isDrawerOpen, route, selectedStop, finalETA, trolleyLocations,
                    selectedCar, etaInFlight, pollInFlight >>

(***************************************************************************)
(* Location polling.                                                       *)
(***************************************************************************)
\* Variant: the selected car looked up again by id in every new list.
pollResponseResync(data) ==
    /\ pollInFlight > 0
    /\ pollInFlight' = pollInFlight - 1
    /\ trolleyLocations' = IF mounted THEN data ELSE trolleyLocations
    /\ selectedCar' =
          IF mounted /\ \E i \in DOMAIN data : data[i].id = selectedCar.id
          THEN data[CHOOSE i \in DOMAIN data : data[i].id = selectedCar.id]
          ELSE IF mounted THEN NoCar ELSE selectedCar
    /\ UNCHANGED << isDrawerOpen, route, selectedStop, finalETA,
                    etaInFlight, lifecycle, interval >>

\* Variant: the response merged into the list by id; vehicles the response
\* lacks are kept.
pollResponseMerge(data) ==
    /\ pollInFlight > 0
    /\ pollInFlight' = pollInFlight - 1
    /\ trolleyLocations' =
          IF mounted
          THEN data \o SelectSeq(trolleyLocations,
                                 LAMBDA car : \A i \in DOMAIN data : data[i].id # car.id)
          ELSE trolleyLocations
    /\ UNCHANGED << isDrawerOpen, route, selectedStop, finalETA, selectedCar,
                    etaInFlight, lifecycle, interval >>

\* fetchTrolleyLocations after its awaits: setTrolleyLocations(data).
\* A state setter of a component that is no longer mounted does nothing.
pollResponse(data) ==
    /\ pollInFlight > 0
    /\ pollInFlight' = pollInFlight - 1
    /\ trolleyLocations' = IF mounted THEN data ELSE trolleyLocations
    /\ UNCHANGED << isDrawerOpen, route, selectedStop, finalETA, selectedCar,
                    etaInFlight, lifecycle, interval >>

\* Variant: a failed poll cancels the interval.
pollFailureStops ==
    /\ pollInFlight > 0
    /\ pollInFlight' = pollInFlight - 1
    /\ interval' = IF mounted THEN "cleared" ELSE interval
    /\ UNCHANGED << isDrawerOpen, route, selectedStop, finalETA, trolleyLocations,
                    selectedCar, etaInFlight, lifecycle >>

\* fetch rejects or response.json() throws: nothing catches it, the promise
\* of fetchTrolleyLocations rejects and no setter is called.
pollFailure ==
    /\ pollInFlight > 0
    /\ pollInFlight' = pollInFlight - 1
    /\ UNCHANGED << isDrawerOpen, route, selectedStop, finalETA, trolleyLocations,
                    selectedCar, etaInFlight, lifecycle, interval >>

(***************************************************************************)
(* Car selection.                                                          *)
(***************************************************************************)
\* trolleyLocations.find((car) => car.id === carId): the first match, or
\* undefined (0 here: no index).
findIndex(list, carId) ==
    IF \E i \in 1..Len(list) : list[i].id = carId
    THEN CHOOSE i \in 1..Len(list) :
            /\ list[i].id = carId
            /\ \A j \in 1..(i - 1) : list[j].id # carId
    ELSE 0

\* Variant: a miss keeps the car selected before.
selectedOrStale(list, carId) ==
    IF findIndex(list, carId) = 0 THEN selectedCar ELSE list[findIndex(list, carId)]

\* selected || null
selectedOrNull(list, carId) ==
    IF findIndex(list, carId) = 0 THEN NoCar ELSE list[findIndex(list, carId)]

selectCar(carId) ==
    /\ mounted
    /\ selectedCar' = selectedOrNull(trolleyLocations, carId)
    /\ UNCHANGED << isDrawerOpen, route, selectedStop, finalETA, trolleyLocations,
                    etaInFlight, pollInFlight, lifecycle, interval >>

(***************************************************************************)
(* Route and sidebar.                                                      *)
(***************************************************************************)
\* Variant: switching direction also clears the stop selection.
setRouteClearing(direction) ==
    /\ mounted
    /\ route' = direction
    /\ selectedStop' = "default"
    /\ UNCHANGED << isDrawerOpen, finalETA, trolleyLocations, selectedCar,
                    etaInFlight, pollInFlight, lifecycle, interval >>

\* <RouteToggle value={route} onChange={setRoute} />
setRoute(direction) ==
    /\ mounted
    /\ route' = direction
    /\ UNCHANGED << isDrawerOpen, selectedStop, finalETA, trolleyLocations,
                    selectedCar, etaInFlight, pollInFlight, lifecycle, interval >>

\* Variant: the sidebar button also drops the selected car.
toggleSidebarClearing ==
    /\ mounted
    /\ isDrawerOpen' = ~isDrawerOpen
    /\ selectedCar' = NoCar
    /\ UNCHANGED << route, selectedStop, finalETA, trolleyLocations,
                    etaInFlight, pollInFlight, lifecycle, interval >>

\* onClick={() => setIsDrawerOpen(currentState => !currentState)}
toggleSidebar ==
    /\ mounted
    /\ isDrawerOpen' = ~isDrawerOpen
    /\ UNCHANGED << route, selectedStop, finalETA, trolleyLocations, selectedCar,
                    etaInFlight, pollInFlight, lifecycle, interval >>

(***************************************************************************)
(* ETA fetching.                                                           *)
(***************************************************************************)
\* Variant: the request is sent without setSelectedStop(stop) before it.
\* Variant: the payload names a fixed direction instead of the active one.
handleSelectStopFixedRoute(stop) ==
    /\ mounted
    /\ Len(etaInFlight) < MaxEtaInFlight
    /\ selectedStop' = stop
    /\ etaInFlight' = Append(etaInFlight, [stop |-> stop, route |-> "northbound"])
    /\ UNCHANGED << isDrawerOpen, route, finalETA, trolleyLocations, selectedCar,
                    pollInFlight, lifecycle, interval >>

\* Variant: the selection shows a loading text until its answer arrives.
handleSelectStopLoading(stop) ==
    /\ mounted
    /\ Len(etaInFlight) < MaxEtaInFlight
    /\ selectedStop' = stop
    /\ finalETA' = "Loading..."
    /\ etaInFlight' = Append(etaInFlight, [stop |-> stop, route |-> route])
    /\ UNCHANGED << isDrawerOpen, route, trolleyLocations, selectedCar,
                    pollInFlight, lifecycle, interval >>

handleSelectStopLate(stop) ==
    /\ mounted
    /\ Len(etaInFlight) < MaxEtaInFlight
    /\ etaInFlight' = Append(etaInFlight, [stop |-> stop, route |-> route])
    /\ UNCHANGED << isDrawerOpen, route, selectedStop, finalETA, trolleyLocations,
                    selectedCar, pollInFlight, lifecycle, interval >>

\* handleSelectStop up to its first await: setSelectedStop(stop), then the
\* POST of {stop, route}.
handleSelectStop(stop) ==
    /\ mounted
    /\ Len(etaInFlight) < MaxEtaInFlight
    /\ selectedStop' = stop
    /\ etaInFlight' = Append(etaInFlight, [stop |-> stop, route |-> route])
    /\ UNCHANGED << isDrawerOpen, route, finalETA, trolleyLocations, selectedCar,
                    pollInFlight, lifecycle, interval >>

\* The sequence without its i-th element.
RemoveAt(seq, i) == [j \in 1..(Len(seq) - 1) |-> IF j < i THEN seq[j] ELSE seq[j + 1]]

\* Reading data.error of a parsed body throws a TypeError when the body is null.
readThrows(data) == data.t = "null"

\* Variant: the numeric fields tested before the error field.
etaDisplayNumbersFirst(data) ==
    IF NotNullish(data.eta_min) /\ NotNullish(data.eta_sec)
    THEN TemplateString(data.eta_min) \o " min " \o TemplateString(data.eta_sec) \o " sec"
    ELSE IF Truthy(data.error)
         THEN TemplateString(data.error)
         ELSE "ETA not available."

\* Variant: the numeric fields tested for truthiness (data.eta_min && data.eta_sec).
etaDisplayTruthyNumbers(data) ==
    IF Truthy(data.error)
    THEN TemplateString(data.error)
    ELSE IF Truthy(data.eta_min) /\ Truthy(data.eta_sec)
         THEN TemplateString(data.eta_min) \o " min " \o TemplateString(data.eta_sec) \o " sec"
         ELSE "ETA not available."

\* The if / else if / else on the parsed body: the string given to setFinalETA.
etaDisplay(data) ==
    IF Truthy(data.error)
    THEN TemplateString(data.error)
    ELSE IF NotNullish(data.eta_min) /\ NotNullish(data.eta_sec)
         THEN TemplateString(data.eta_min) \o " min " \o TemplateString(data.eta_sec) \o " sec"
         ELSE "ETA not available."

\* The catch block: console.error, then setEta("ERROR").  No setEta is
\* defined, so the call throws a ReferenceError out of the handler (its
\* promise rejects) and the displayed ETA is not written.
catchBlock == UNCHANGED finalETA

\* Variant: an ordering guard; a response for a stop that is no longer the
\* selected one is discarded.
etaResponseGuarded(i, data) ==
    /\ i \in 1..Len(etaInFlight)
    /\ etaInFlight' = RemoveAt(etaInFlight, i)
    /\ IF readThrows(data) \/ etaInFlight[i].stop # selectedStop
       THEN catchBlock
       ELSE finalETA' = IF mounted THEN etaDisplay(data) ELSE finalETA
    /\ UNCHANGED << isDrawerOpen, route, selectedStop, trolleyLocations, selectedCar,
                    pollInFlight, lifecycle, interval >>

\* The i-th request in flight is answered with a body that parses to data.
etaResponse(i, data) ==
    /\ i \in 1..Len(etaInFlight)
    /\ etaInFlight' = RemoveAt(etaInFlight, i)
    /\ IF readThrows(data)
       THEN catchBlock
       ELSE finalETA' = IF mounted THEN etaDisplay(data) ELSE finalETA
    /\ UNCHANGED << isDrawerOpen, route, selectedStop, trolleyLocations, selectedCar,
                    pollInFlight, lifecycle, interval >>

\* The i-th request in flight fails: fetch rejects, or the body is not JSON.
\* Variant: a failed request is sent again.
etaFailureRetry(i) ==
    /\ i \in 1..Len(etaInFlight)
    /\ etaInFlight' = Append(RemoveAt(etaInFlight, i), etaInFlight[i])
    /\ catchBlock
    /\ UNCHANGED << isDrawerOpen, route, selectedStop, trolleyLocations, selectedCar,
                    pollInFlight, lifecycle, interval >>

etaFailure(i) ==
    /\ i \in 1..Len(etaInFlight)
    /\ etaInFlight' = RemoveAt(etaInFlight, i)
    /\ catchBlock
    /\ UNCHANGED << isDrawerOpen, route, selectedStop, trolleyLocations, selectedCar,
                    pollInFlight, lifecycle, interval >>

(***************************************************************************)
(* Specification.                                                          *)
(***************************************************************************)
\* The buttons the user clicks, by position in the rendered list.  Positions
\* 3 and 8 are a stop of both directions and a stop of one direction only, in
\* either list.
ClickPositions == {3, 8}
Clickable == { StopSelector(stops)[i] : i \in ClickPositions }

Next ==
    \/ Mount
    \/ Tick
    \/ Unmount
    \/ \E data \in PollBodies : pollResponse(data)
    \/ pollFailure
    \/ \E carId \in CarIds : selectCar(carId)
    \/ \E direction \in Routes : setRoute(direction)
    \/ toggleSidebar
    \/ \E stop \in Clickable : handleSelectStop(stop)
    \/ \E i \in 1..MaxEtaInFlight, data \in EtaBodies : etaResponse(i, data)
    \/ \E i \in 1..MaxEtaInFlight : etaFailure(i)

Spec == Init /\ [][Next]_vars

\* The ETA fetcher with the route and stop selection that feeds it: the
\* behaviours of Spec in which the location request of the mount stays
\* pending and the car sidebar is left alone.  No handler of this part reads
\* the vehicle list, the selected car or the sidebar flag.
NextEta ==
    \/ Mount
    \/ Unmount
    \/ \E direction \in Routes : setRoute(direction)
    \/ \E stop \in Clickable : handleSelectStop(stop)
    \/ \E i \in 1..MaxEtaInFlight, data \in EtaBodies : etaResponse(i, data)
    \/ \E i \in 1..MaxEtaInFlight : etaFailure(i)

SpecEta == Init /\ [][NextEta]_vars

\* The body the ETA endpoint answers a request with, when the answer depends
\* on the requested stop alone: each clickable stop has its own answer.
etaService(request) ==
    CASE request.stop = "Paseo Del Saber/Apache Blvd" ->
             EtaObject(JUndefined, JNumber(3), JNumber(7))
      [] request.stop = "Third St/Mill" ->
             EtaObject(JUndefined, JNumber(0), JNumber(0))
      [] request.stop = "Tempe Beach Park" ->
             EtaObject(JString("Trolley not in service"), JUndefined, JUndefined)
      [] OTHER ->
             EtaObject(JUndefined, JUndefined, JUndefined)

\* The i-th request in flight is answered by such an endpoint.
etaAnswered(i) ==
    /\ i \in 1..Len(etaInFlight)
    /\ etaResponse(i, etaService(etaInFlight[i]))

\* The behaviours of SpecEta in which every request is answered, in any
\* order, by an endpoint whose answer depends on the stop alone: the text
\* displayed tells which stop it is the result for.
NextEtaService ==
    \/ Mount
    \/ Unmount
    \/ \E direction \in Routes : setRoute(direction)
    \/ \E stop \in Clickable : handleSelectStop(stop)
    \/ \E i \in 1..MaxEtaInFlight : etaAnswered(i)

SpecEtaService == Init /\ [][NextEtaService]_vars

\* The location poller with the car selection that reads its list: the
\* behaviours of Spec in which no stop is selected and the direction is not
\* switched.
NextPoll ==
    \/ Mount
    \/ Tick
    \/ Unmount
    \/ \E data \in PollBodies : pollResponse(data)
    \/ pollFailure
    \/ \E carId \in CarIds : selectCar(carId)
    \/ toggleSidebar

SpecPoll == Init /\ [][NextPoll]_vars

\* The behaviours of Spec in which the location endpoint never answers with
\* the empty array: an empty vehicle list with no request in flight then
\* tells that the request of the mount has failed.
NonEmptyPollBodies == PollBodies \ { << >> }
NextNonEmptyPolls ==
    \/ Mount
    \/ Tick
    \/ Unmount
    \/ \E data \in NonEmptyPollBodies : pollResponse(data)
    \/ pollFailure
    \/ \E carId \in CarIds : selectCar(carId)
    \/ \E direction \in Routes : setRoute(direction)
    \/ toggleSidebar
    \/ \E stop \in Clickable : handleSelectStop(stop)
    \/ \E i \in 1..MaxEtaInFlight, data \in EtaBodies : etaResponse(i, data)
    \/ \E i \in 1..MaxEtaInFlight : etaFailure(i)

SpecNonEmptyPolls == Init /\ [][NextNonEmptyPolls]_vars

(***************************************************************************)
(* Properties.                                                             *)
(***************************************************************************)
Range(seq) == { seq[i] : i \in DOMAIN seq }
NoDuplicates(seq) == \A i, j \in DOMAIN seq : seq[i] = seq[j] => i = j
Nullish(v) == v.t \in {"null", "undefined"}
HasId(list, carId) == \E i \in DOMAIN list : list[i].id = carId
\* A step of the mounted view in which an ETA request settles.
EtaSettles == mounted /\ Len(etaInFlight') < Len(etaInFlight)

\* C1: when the ETA request fails at the transport level, the displayed ETA
\* becomes the error token "ERROR" and differs from the value displayed before.
C1_TransportFailureShowsError ==
    [][ EtaSettles =>
          \A i \in 1..MaxEtaInFlight :
             etaFailure(i) => (finalETA' = "ERROR" /\ finalETA' # finalETA) ]_vars

\* C2 as stated: in every reachable state the selected stop is "default" or a
\* member of the stop list of the active route direction.
C2_SelectedStopInActiveList ==
    selectedStop = "default" \/ selectedStop \in Range(stopsOf(route))

\* C2 amended: the selected stop is "default" or a stop of one of the two
\* directions, and whenever it changes it becomes a member of the stop list
\* of the direction active at that moment; setRoute does not re-validate it.
C2_SelectedStopInListWhenSelected ==
    /\ [](selectedStop = "default"
            \/ selectedStop \in Range(northboundStops) \cup Range(southboundStops))
    /\ [][ selectedStop' # selectedStop =>
              (route' = route /\ selectedStop' \in Range(stopsOf(route))) ]_vars

\* A stop of the northbound list only is selected and a request for it is
\* in flight.
C2_Witness ==
    /\ selectedStop = "Third St/Mill"
    /\ route = "northbound"
    /\ Len(etaInFlight) > 0

\* C3 as stated: a response carrying an error field with any string value
\* displays exactly that string, whatever the other fields.
C3_ErrorFieldAlwaysShown ==
    [][ EtaSettles =>
          \A i \in 1..MaxEtaInFlight : \A data \in EtaObjects :
             (data.error.t = "string" /\ etaResponse(i, data)) =>
                 finalETA' = data.error.s ]_vars

\* C3 amended: a response carrying a non-empty error string displays exactly
\* that string, also when eta_min and eta_sec are both non-null.
C3_NonEmptyErrorShown ==
    [][ EtaSettles =>
          \A i \in 1..MaxEtaInFlight : \A data \in EtaObjects :
             (data.error.t = "string" /\ data.error.s # "" /\ etaResponse(i, data)) =>
                 finalETA' = data.error.s ]_vars

\* The server's error string is displayed.
C3_Witness == mounted /\ finalETA = "Trolley not in service"

\* C4: in every state of the mounted view, selectCar with an id that no
\* element of the current vehicle list has can run, and it ends with no car
\* selected and in no other way, whatever car was selected before.
C4_SelectCarMissResets ==
    \A carId \in CarIds :
       (mounted /\ ~HasId(trolleyLocations, carId)) =>
           /\ ENABLED (selectCar(carId) /\ selectedCar' = NoCar)
           /\ ~ENABLED (selectCar(carId) /\ selectedCar' # NoCar)

\* Car "2" is selected and a later poll has stored a list without it: the
\* next selectCar("2") is a miss with a car selected.
C4_Witness ==
    /\ mounted
    /\ selectedCar.id = "2"
    /\ trolleyLocations = << Car("1", 0, 0) >>

\* C5: mounting issues one location request, each tick issues one, the
\* teardown cancels the interval, and once the view is torn down no location
\* request is issued.
C5_PollStopsAfterTeardown ==
    [][ /\ Mount => pollInFlight' = pollInFlight + 1
        /\ Tick => pollInFlight' = pollInFlight + 1
        /\ lifecycle' = "unmounted" => interval' = "cleared"
        /\ lifecycle = "unmounted" => pollInFlight' <= pollInFlight ]_vars

\* The view is torn down after polls have resolved, with a request still in flight.
C5_Witness ==
    /\ lifecycle = "unmounted"
    /\ trolleyLocations # << >>
    /\ pollInFlight > 0

\* C6: setRoute makes the stop list the new direction's sequence and leaves
\* the selected stop, the displayed ETA, the vehicle list, the selected car,
\* the sidebar flag and the ETA requests in flight as they were.
C6_SetRouteFrame ==
    [][ \A direction \in Routes :
          setRoute(direction) =>
              /\ stops' = IF direction = "northbound" THEN northboundStops
                                                      ELSE southboundStops
              /\ UNCHANGED << selectedStop, finalETA, trolleyLocations, selectedCar,
                              isDrawerOpen, etaInFlight, pollInFlight >> ]_vars

\* The direction was switched after a northbound-only stop was selected, with
\* an ETA displayed, a request in flight and a car selected.
C6_Witness ==
    /\ route = "southbound"
    /\ selectedStop = "Third St/Mill"
    /\ finalETA = "3 min 7 sec"
    /\ Len(etaInFlight) > 0
    /\ selectedCar # NoCar

\* C7: a response with no error (field absent or null) and both eta_min and
\* eta_sec non-null, 0 included, displays "<eta_min> min <eta_sec> sec".
C7_NumericEtaFormatted ==
    [][ EtaSettles =>
          \A i \in 1..MaxEtaInFlight : \A data \in EtaObjects :
             (Nullish(data.error)
                /\ data.eta_min.t = "number" /\ data.eta_sec.t = "number"
                /\ etaResponse(i, data)) =>
                 finalETA' = ToString(data.eta_min.n) \o " min "
                               \o ToString(data.eta_sec.n) \o " sec" ]_vars

\* An ETA of zero minutes and zero seconds is displayed.
C7_Witness == mounted /\ finalETA = "0 min 0 sec"

\* C8: a parsed response with no error field in which eta_min or eta_sec is
\* missing or null displays "ETA not available.".
C8_MalformedShapeFallsBack ==
    [][ EtaSettles =>
          \A i \in 1..MaxEtaInFlight : \A data \in EtaBodies :
             (data.error.t = "undefined"
                /\ (Nullish(data.eta_min) \/ Nullish(data.eta_sec))
                /\ etaResponse(i, data)) =>
                 finalETA' = "ETA not available." ]_vars

\* C9: the active stop list is the fixed sequence of the active direction
\* (its length and termini), has no duplicate name, and is rendered by the
\* stop selector element for element in the same order.
C9_StopCatalog ==
    /\ route = "northbound" =>
          /\ stops = northboundStops
          /\ Len(stops) = 10
          /\ stops[1] = "Dorsey Ln/Apache Blvd" /\ stops[10] = "Marina Heights"
    /\ route = "southbound" =>
          /\ stops = southboundStops
          /\ Len(stops) = 12
          /\ stops[1] = "Marina Heights" /\ stops[12] = "Dorsey Ln/Apache Blvd"
    /\ NoDuplicates(stops)
    /\ StopSelector(stops) = stops

\* The southbound list is active after a stop was selected, an ETA was
\* displayed, a car was selected and the sidebar was opened.
C9_Witness ==
    /\ route = "southbound"
    /\ selectedStop = "Tempe Beach Park"
    /\ finalETA = "ETA not available."
    /\ selectedCar # NoCar
    /\ isDrawerOpen

\* C10: toggleSidebar negates the sidebar flag and changes nothing else, so
\* a second toggle restores the state before the first.
C10_ToggleSidebarFrame ==
    [][ toggleSidebar =>
          /\ isDrawerOpen' = ~isDrawerOpen
          /\ UNCHANGED << route, selectedStop, finalETA, trolleyLocations,
                          selectedCar, etaInFlight, pollInFlight, lifecycle,
                          interval >> ]_vars

\* The sidebar is open with a stop and a car selected and requests in flight.
C10_Witness ==
    /\ isDrawerOpen
    /\ selectedStop # "default"
    /\ selectedCar # NoCar
    /\ Len(etaInFlight) > 0
    /\ pollInFlight > 0


\* The text displayed for the answer of the stop-determined endpoint.
ResultFor(stop) ==
    CASE stop = "Paseo Del Saber/Apache Blvd" -> "3 min 7 sec"
      [] stop = "Third St/Mill" -> "0 min 0 sec"
      [] stop = "Tempe Beach Park" -> "Trolley not in service"
      [] OTHER -> "ETA not available."

\* C11: whichever request in flight is answered, the latest issued or a
\* superseded one, the displayed ETA becomes the result for the stop of that
\* request: the response that resolves last wins and none is discarded.
C11_LastResolvedWins ==
    [][ \A i \in 1..MaxEtaInFlight :
          (mounted /\ i <= Len(etaInFlight)
             /\ etaInFlight' = RemoveAt(etaInFlight, i)) =>
              finalETA' = ResultFor(etaInFlight[i].stop) ]_vars

\* No ETA fetch is in flight and the displayed ETA is the result for
\* "Paseo Del Saber/Apache Blvd" while "Third St/Mill" is the selected stop.
C11_Witness ==
    /\ mounted
    /\ etaInFlight = << >>
    /\ selectedStop = "Third St/Mill"
    /\ finalETA = "3 min 7 sec"


\* A step that sends an ETA request: one more request is in flight.
EtaIssued == Len(etaInFlight') > Len(etaInFlight)
\* The request sent last.
LastRequest(requests) == requests[Len(requests)]

\* C12: the step of selectStop(stopName) that sends the request also makes
\* stopName the selected stop, and the selected stop changes in no other
\* step: while that request is in flight and no later selectStop has
\* occurred, the selected stop is stopName.
C12_SelectedStopSetAtIssue ==
    /\ [][ EtaIssued => selectedStop' = LastRequest(etaInFlight').stop ]_vars
    /\ [][ selectedStop' # selectedStop => EtaIssued ]_vars

\* The request of the latest selection is in flight, nothing has resolved
\* yet, and its stop is the selected stop.
C12_Witness ==
    /\ mounted
    /\ etaInFlight = << [stop |-> "Third St/Mill", route |-> "northbound"] >>
    /\ selectedStop = "Third St/Mill"
    /\ finalETA = "ETA_PLACEHOLDER"


\* C13: the vehicle list of the mounted view is the initial empty list or one
\* of the arrays the endpoint answered with; a response that resolves, in
\* whatever order, makes the list exactly its array, and the list changes in
\* no step other than one in which a location request settles.
C13_ListIsLastResponse ==
    /\ [](trolleyLocations = << >> \/ trolleyLocations \in PollBodies)
    /\ [][ \A data \in PollBodies :
              (mounted /\ pollResponse(data)) => trolleyLocations' = data ]_vars
    /\ [][ trolleyLocations' # trolleyLocations =>
              pollInFlight' = pollInFlight - 1 ]_vars

\* Two location requests overlap in flight after an earlier response has
\* replaced the list.
C13_Witness ==
    /\ mounted
    /\ pollInFlight >= 2
    /\ trolleyLocations = << Car("1", 1, 1), Car("2", 0, 0) >>


\* C14: a location response that is applied leaves the selected car as it
\* is, and the selected car changes in no step in which a location request
\* settles or the list changes; it keeps the record captured by selectCar.
C14_PollKeepsSelectedCar ==
    /\ [][ \A data \in PollBodies :
              pollResponse(data) => selectedCar' = selectedCar ]_vars
    /\ [][ selectedCar' # selectedCar =>
              UNCHANGED << trolleyLocations, pollInFlight >> ]_vars

\* Car "1" was selected at lat 0, lng 0 and a later response moved it: the
\* selected record is not an element of the current list.
C14_Witness ==
    /\ mounted
    /\ selectedCar = Car("1", 0, 0)
    /\ trolleyLocations = << Car("1", 1, 1), Car("2", 0, 0) >>
    /\ selectedCar \notin Range(trolleyLocations)


\* C15: a failed location request changes nothing but the number of requests
\* in flight; the interval of the mounted view stays set, so a tick can
\* still issue a request, and a response that resolves later still replaces
\* the list.
C15_PollFailureFrame ==
    /\ [][ pollFailure =>
              UNCHANGED << trolleyLocations, selectedCar, route, selectedStop,
                           finalETA, isDrawerOpen, etaInFlight, lifecycle,
                           interval >> ]_vars
    /\ [](mounted => interval = "set")
    /\ []((mounted /\ pollInFlight < MaxPollInFlight) =>
             ENABLED (Tick /\ pollInFlight' = pollInFlight + 1))
    /\ []((mounted /\ pollInFlight > 0) =>
             \A data \in PollBodies :
                ENABLED (pollResponse(data) /\ trolleyLocations' = data))

\* The request of the mount has failed (the list is still empty and nothing
\* is in flight) while a stop is selected and an ETA is displayed; the
\* interval is still set.
C15_Witness ==
    /\ mounted
    /\ interval = "set"
    /\ trolleyLocations = << >>
    /\ pollInFlight = 0
    /\ selectedStop = "Tempe Beach Park"
    /\ finalETA = "3 min 7 sec"


\* The requests in flight before the step are all still in flight after it,
\* in the same order, followed by exactly one new request.
OneRequestAdded ==
    /\ Len(etaInFlight') = Len(etaInFlight) + 1
    /\ SubSeq(etaInFlight', 1, Len(etaInFlight)) = etaInFlight

\* One request in flight has settled and none was issued.
OneRequestSettled == \E i \in 1..Len(etaInFlight) : etaInFlight' = RemoveAt(etaInFlight, i)

\* C16: every selectStop call issues exactly one ETA request, every other
\* step issues none, and a request that fails leaves the requests in flight
\* without it: nothing is sent again.
C16_OneRequestPerSelection ==
    /\ [][ \A stop \in Range(northboundStops) \cup Range(southboundStops) :
              handleSelectStop(stop) => OneRequestAdded ]_vars
    /\ [][ etaInFlight' # etaInFlight =>
              \/ OneRequestAdded /\ selectedStop' = LastRequest(etaInFlight').stop
              \/ OneRequestSettled ]_vars
    /\ [][ \A i \in 1..MaxEtaInFlight :
              etaFailure(i) => etaInFlight' = RemoveAt(etaInFlight, i) ]_vars

\* The only request issued has failed: a stop is selected, nothing is in
\* flight and the display was never written.
C16_Witness ==
    /\ mounted
    /\ selectedStop = "Paseo Del Saber/Apache Blvd"
    /\ etaInFlight = << >>
    /\ finalETA = "ETA_PLACEHOLDER"

\* C17: every ETA request in flight carries a direction and a stop of that
\* direction's list; the direction is the one active when the request is
\* issued, and changing the direction changes no request already issued.
C17_PayloadMatchesRoute ==
    /\ [](\A i \in DOMAIN etaInFlight :
             /\ etaInFlight[i].route \in Routes
             /\ etaInFlight[i].stop \in Range(stopsOf(etaInFlight[i].route)))
    /\ [][ EtaIssued =>
              /\ LastRequest(etaInFlight').route = route
              /\ LastRequest(etaInFlight').stop \in Range(stopsOf(route)) ]_vars
    /\ [][ route' # route => etaInFlight' = etaInFlight ]_vars

\* A northbound request is still in flight, unchanged, after the direction
\* was switched and a southbound request was issued.
C17_Witness ==
    /\ mounted
    /\ route = "southbound"
    /\ etaInFlight = << [stop |-> "Third St/Mill", route |-> "northbound"],
                        [stop |-> "Tempe Beach Park", route |-> "southbound"] >>

\* C18: the displayed ETA changes only in a step of the mounted view that
\* settles an ETA request; issuing a request leaves it unchanged.
C18_DisplayWrittenOnlyOnResponse ==
    /\ [][ finalETA' # finalETA => (mounted /\ OneRequestSettled) ]_vars
    /\ [][ EtaIssued => finalETA' = finalETA ]_vars
    /\ [][ \A stop \in Range(northboundStops) \cup Range(southboundStops) :
              handleSelectStop(stop) => finalETA' = finalETA ]_vars

\* Two selections are in flight, the direction and the drawer were changed
\* and a vehicle list has arrived, and the display still shows the
\* placeholder.
C18_Witness ==
    /\ mounted
    /\ Len(etaInFlight) = 2
    /\ selectedStop = "Eleventh St/Mill"
    /\ route = "southbound"
    /\ isDrawerOpen
    /\ trolleyLocations # << >>
    /\ finalETA = "ETA_PLACEHOLDER"

====
